---------------------------- MODULE Spec2Model ----------------------------
(***************************************************************************)
(* A model of src/parser.py: the header extractor, the format-spec parser, *)
(* the fixed-width record decoder of parse_data and the converter layer.   *)
(* Text is a sequence of one-character strings; a document is a sequence   *)
(* of lines.  Every function of the module is one operator computed the    *)
(* way the code computes it, and one action applies it to an input.        *)
(***************************************************************************)
EXTENDS Integers, Sequences, FiniteSets, TLC

VARIABLES
    pc,                 \* which function is about to run / has returned
    raw_spec,           \* argument of parse_format_spec
    full_text,          \* argument of extract_variable_names / parse_data
    n_vars,             \* number of variable-definition lines of a built document
    records,            \* the integers a built document's data lines encode
    pads,               \* spaces appended to each physical line of a record
    parsed_df,          \* argument of do_inplace_conversions
    converter_mapping,  \* argument of do_inplace_conversions
    ret                 \* what the function returned, or the error it raised

vars == <<pc, raw_spec, full_text, n_vars, records, pads, parsed_df, converter_mapping, ret>>

-----------------------------------------------------------------------------
(* Characters and the classes the regular expressions and str methods use. *)

DigitChars == <<"0", "1", "2", "3", "4", "5", "6", "7", "8", "9">>

Digits == {DigitChars[i] : i \in 1..10}

Letters ==
    {"A", "B", "C", "D", "E", "F", "G", "H", "I", "J", "K", "L", "M",
     "N", "O", "P", "Q", "R", "S", "T", "U", "V", "W", "X", "Y", "Z"}

\* \d of the re module
IsDigit(c) == c \in Digits

\* \w of the re module: letters, digits and the underscore
IsWord(c) == c \in Digits \cup Letters \cup {"_"}

\* \s of the re module, and what str.strip() / str.rstrip() remove
IsSpace(c) == c \in {" ", "\t"}

DigitVal(c) == (CHOOSE i \in 1..10 : DigitChars[i] = c) - 1

SetMin(S) == CHOOSE x \in S : \A y \in S : x <= y

SetMax(S) == CHOOSE x \in S : \A y \in S : y <= x

\* str.count(c)
Count(s, c) == Cardinality({i \in 1..Len(s) : s[i] = c})

\* str.strip(chars): drop leading and trailing characters that are in cs
StripChars(s, cs) ==
    LET keep == {i \in 1..Len(s) : s[i] \notin cs}
    IN  IF keep = {} THEN <<>> ELSE SubSeq(s, SetMin(keep), SetMax(keep))

\* str.strip(): drop leading and trailing whitespace
Strip(s) ==
    LET keep == {i \in 1..Len(s) : ~IsSpace(s[i])}
    IN  IF keep = {} THEN <<>> ELSE SubSeq(s, SetMin(keep), SetMax(keep))

\* str.rstrip(): drop trailing whitespace only
RStrip(s) ==
    LET keep == {i \in 1..Len(s) : ~IsSpace(s[i])}
    IN  IF keep = {} THEN <<>> ELSE SubSeq(s, 1, SetMax(keep))

\* the value of a non-empty string of decimal digits
RECURSIVE DigitsToInt(_)
DigitsToInt(s) ==
    IF s = <<>> THEN 0
    ELSE 10 * DigitsToInt(SubSeq(s, 1, Len(s) - 1)) + DigitVal(s[Len(s)])

\* the number of consecutive digits of s from index i on
DigitRun(s, i) ==
    LET stop == {j \in i..Len(s) : ~IsDigit(s[j])}
    IN  IF stop = {} THEN (IF i > Len(s) THEN 0 ELSE Len(s) - i + 1)
        ELSE SetMin(stop) - i

-----------------------------------------------------------------------------
(* parse_format_spec                                                       *)

\* re.split(r"[,/]", s): cut at every comma and every slash
RECURSIVE SplitFields(_)
SplitFields(s) ==
    LET d == {i \in 1..Len(s) : s[i] \in {",", "/"}}
    IN  IF d = {} THEN <<s>>
        ELSE <<SubSeq(s, 1, SetMin(d) - 1)>>
                 \o SplitFields(SubSeq(s, SetMin(d) + 1, Len(s)))

\* The repeat-prefix lengths r with which (\d*)(\w)(\d+) matches at index i:
\* r digits, then one word character, then at least one digit.
PrefixLens(s, i) ==
    {r \in 0..DigitRun(s, i) :
        /\ i + r + 1 <= Len(s)
        /\ IsWord(s[i + r])
        /\ IsDigit(s[i + r + 1])}

\* re.search(r"(\d*)(\w)(\d+)\.?", s): the leftmost match, \d* and \d+ greedy.
\* The result is the groups of the match, or "None".
SpecPatternSearch(s) ==
    LET starts == {i \in 1..Len(s) : PrefixLens(s, i) # {}}
    IN  IF starts = {} THEN [matched |-> FALSE]
        ELSE LET i == SetMin(starts)
                 r == SetMax(PrefixLens(s, i))
                 w == DigitRun(s, i + r + 1)
             IN  [matched     |-> TRUE,
                  n_repeats   |-> SubSeq(s, i, i + r - 1),
                  field_type  |-> s[i + r],
                  field_width |-> SubSeq(s, i + r + 1, i + r + w)]

\* a slip: an absent repeat count read as no repetition at all
FieldSpecNoDefault(m) ==
    [n_repeats |-> IF m.n_repeats # <<>> THEN DigitsToInt(m.n_repeats) ELSE 0,
     type      |-> m.field_type,
     width     |-> DigitsToInt(m.field_width)]

\* FieldSpec(int(n_repeats) if n_repeats else 1, field_type, int(field_width))
FieldSpec(m) ==
    [n_repeats |-> IF m.n_repeats # <<>> THEN DigitsToInt(m.n_repeats) ELSE 1,
     type      |-> m.field_type,
     width     |-> DigitsToInt(m.field_width)]

\* raw_spec.count("/") + 1
ChunkSize(s) == Count(s, "/") + 1

parse_format_spec(s) ==
    LET fields   == SplitFields(StripChars(s, {" ", "(", ")"}))
        matches  == [k \in 1..Len(fields) |-> SpecPatternSearch(fields[k])]
        failures == {k \in 1..Len(fields) : ~matches[k].matched}
    IN  IF failures # {}
        THEN [status |-> "ValueError", field |-> fields[SetMin(failures)]]
        ELSE [status      |-> "ok",
              field_specs |-> [k \in 1..Len(fields) |-> FieldSpec(matches[k])],
              chunk_size  |-> ChunkSize(s)]

-----------------------------------------------------------------------------
(* extract_variable_names                                                  *)

SUBJECT_ID == <<"S", "U", "B", "J", "E", "C", "T", " ", "I", "D">>

\* str.startswith(c)
StartsWith(s, c) == Len(s) >= 1 /\ s[1] = c

\* the length of the whitespace run of s that starts at index i
SpaceRun(s, i) ==
    LET stop == {j \in i..Len(s) : ~IsSpace(s[j])}
    IN  IF stop = {} THEN Len(s) - i + 1 ELSE SetMin(stop) - i

\* re.split(r"\s{2,}", s, maxsplit): cut at the leftmost runs of two or more
\* whitespace characters, at most maxsplit times
RECURSIVE ReSplitSpaces(_, _)
ReSplitSpaces(s, maxsplit) ==
    LET runs == {i \in 1..(Len(s) - 1) : IsSpace(s[i]) /\ IsSpace(s[i + 1])}
    IN  IF maxsplit = 0 \/ runs = {} THEN <<s>>
        ELSE LET i == SetMin(runs)
             IN  <<SubSeq(s, 1, i - 1)>>
                     \o ReSplitSpaces(SubSeq(s, i + SpaceRun(s, i), Len(s)),
                                      maxsplit - 1)

\* line.strip().startswith("(")
IsFormatLine(line) == StartsWith(Strip(line), "(")

\* The for loop over enumerate(full_text), entered at 0-based index idx with
\* the names gathered so far.  It ends by the break (at idx), by running out
\* of lines (_idx is then the last index, and unbound when there is no line)
\* or by split_line[1] raising IndexError.
RECURSIVE ScanHeader(_, _, _)
ScanHeader(ft, idx, var_names) ==
    IF idx >= Len(ft)
    THEN IF Len(ft) = 0 THEN [status |-> "UnboundLocalError"]
         ELSE [status |-> "ok", idx |-> Len(ft) - 1, var_names |-> var_names]
    ELSE IF IsFormatLine(ft[idx + 1])
    THEN [status |-> "ok", idx |-> idx, var_names |-> var_names]
    ELSE LET split_line == ReSplitSpaces(Strip(ft[idx + 1]), 2)
         IN  IF Len(split_line) < 2 THEN [status |-> "IndexError"]
             ELSE ScanHeader(ft, idx + 1, Append(var_names, split_line[2]))

\* full_text[_idx].strip(" ()")
FormatSpecOf(line) == StripChars(line, {" ", "(", ")"})

extract_variable_names(ft) ==
    LET scan == ScanHeader(ft, 0, <<SUBJECT_ID>>)
    IN  IF scan.status # "ok" THEN [status |-> scan.status]
        ELSE [status         |-> "ok",
              var_names      |-> scan.var_names,
              format_spec    |-> FormatSpecOf(ft[scan.idx + 1]),
              data_start_idx |-> scan.idx + 1]

-----------------------------------------------------------------------------
(* parse_data                                                              *)

\* int(text): surrounding whitespace is ignored, one sign may lead, and the
\* digits may be grouped by single underscores; anything else is ValueError
PyInt(text) ==
    LET t      == Strip(text)
        signed == Len(t) >= 1 /\ t[1] \in {"+", "-"}
        body   == IF signed THEN Tail(t) ELSE t
        valid  == /\ body # <<>>
                  /\ \A i \in 1..Len(body) : IsDigit(body[i]) \/ body[i] = "_"
                  /\ IsDigit(body[1])
                  /\ IsDigit(body[Len(body)])
                  /\ \A i \in 1..(Len(body) - 1) :
                         ~(body[i] = "_" /\ body[i + 1] = "_")
        value  == DigitsToInt(SelectSeq(body, IsDigit))
    IN  IF ~valid THEN [status |-> "ValueError"]
        ELSE [status |-> "ok",
              value  |-> IF signed /\ t[1] = "-" THEN 0 - value ELSE value]

\* "".join(chunk)
RECURSIVE Join(_)
Join(lines) == IF lines = <<>> THEN <<>> ELSE Head(lines) \o Join(Tail(lines))

\* more_itertools.chunked(lines, n): consecutive groups of n lines, the last
\* group holding whatever is left
RECURSIVE Chunked(_, _)
Chunked(lines, n) ==
    IF lines = <<>> THEN <<>>
    ELSE IF Len(lines) <= n THEN <<lines>>
    ELSE <<SubSeq(lines, 1, n)>> \o Chunked(SubSeq(lines, n + 1, Len(lines)), n)

\* deque("".join(chunk).rstrip())
RowOf(chunk) == RStrip(Join(chunk))

\* a slip: the inner loop over range(field.n_repeats) left out
RECURSIVE FieldWidthsOnce(_)
FieldWidthsOnce(field_specs) ==
    IF field_specs = <<>> THEN <<>>
    ELSE <<Head(field_specs).width>> \o FieldWidthsOnce(Tail(field_specs))

\* the widths popped in turn: for field in field_specs,
\* for _ in range(field.n_repeats), field.width
RECURSIVE FieldWidths(_)
FieldWidths(field_specs) ==
    IF field_specs = <<>> THEN <<>>
    ELSE [i \in 1..Head(field_specs).n_repeats |-> Head(field_specs).width]
             \o FieldWidths(Tail(field_specs))

\* int("".join(row.popleft() for _ in range(width))) for each width in
\* turn: popleft on an empty deque raises IndexError, int raises ValueError,
\* and what is left in the deque after the last field is dropped
RECURSIVE PopFields(_, _, _)
PopFields(row, widths, parsed_row) ==
    IF widths = <<>> THEN [status |-> "ok", parsed_row |-> parsed_row]
    ELSE IF Len(row) < Head(widths) THEN [status |-> "IndexError"]
    ELSE LET v == PyInt(SubSeq(row, 1, Head(widths)))
         IN  IF v.status # "ok" THEN [status |-> "ValueError"]
             ELSE PopFields(SubSeq(row, Head(widths) + 1, Len(row)),
                            Tail(widths), Append(parsed_row, v.value))

\* the body of the loop over the chunks
DecodeChunk(chunk, field_specs) ==
    PopFields(RowOf(chunk), FieldWidths(field_specs), <<>>)

\* the loop over miter.chunked(full_text[data_start_idx:], chunk_size)
DecodeRows(lines, field_specs, chunk_size) ==
    LET chunks   == Chunked(lines, chunk_size)
        decoded  == [k \in 1..Len(chunks) |-> DecodeChunk(chunks[k], field_specs)]
        failures == {k \in 1..Len(chunks) : decoded[k].status # "ok"}
    IN  IF failures # {} THEN [status |-> decoded[SetMin(failures)].status]
        ELSE [status      |-> "ok",
              parsed_rows |-> [k \in 1..Len(chunks) |-> decoded[k].parsed_row]]

\* a slip: the rows zipped against the names, no length compared
DataFrameByZip(parsed_rows, var_names) ==
    [status |-> "ok", columns |-> var_names, rows |-> parsed_rows]

\* pd.DataFrame(parsed_rows, columns=var_names).set_index("SUBJECT ID"):
\* pandas raises ValueError when a row has not one value per column
DataFrame(parsed_rows, var_names) ==
    IF \E k \in 1..Len(parsed_rows) : Len(parsed_rows[k]) # Len(var_names)
    THEN [status |-> "ValueError"]
    ELSE [status |-> "ok", columns |-> var_names, rows |-> parsed_rows]

\* full_text[data_start_idx:]
DataLines(ft, data_start_idx) == SubSeq(ft, data_start_idx + 1, Len(ft))

parse_data(ft) ==
    LET header == extract_variable_names(ft)
    IN  IF header.status # "ok" THEN [status |-> header.status]
        ELSE LET layout == parse_format_spec(header.format_spec)
             IN  IF layout.status # "ok" THEN [status |-> layout.status]
                 ELSE LET decoded == DecodeRows(DataLines(ft, header.data_start_idx),
                                                layout.field_specs,
                                                layout.chunk_size)
                      IN  IF decoded.status # "ok" THEN [status |-> decoded.status]
                          ELSE DataFrame(decoded.parsed_rows, header.var_names)

-----------------------------------------------------------------------------
(* do_inplace_conversions                                                  *)

\* parsed_df[var_name].apply(converter): the converter on each value of the
\* column in turn; the first error a call raises ends the apply
SeriesApply(column, converter) ==
    LET failures == {i \in 1..Len(column) : converter[column[i]].status # "ok"}
    IN  IF failures # {} THEN [status |-> converter[column[SetMin(failures)]].status]
        ELSE [status |-> "ok",
              values |-> [i \in 1..Len(column) |-> converter[column[i]].value]]

\* The loop over converter_mapping.items() from entry i on, the table being
\* changed in place.  The KeyError of parsed_df[var_name] for a name that is
\* no column is caught, and so is any KeyError raised under the try by the
\* converter; every other error leaves the function.
RECURSIVE ConvertFrom(_, _, _)
ConvertFrom(df, mapping, i) ==
    IF i > Len(mapping) THEN [status |-> "ok", df |-> df]
    ELSE IF mapping[i].var_name \notin DOMAIN df
    THEN ConvertFrom(df, mapping, i + 1)
    ELSE LET applied == SeriesApply(df[mapping[i].var_name], mapping[i].converter)
         IN  IF applied.status = "KeyError" THEN ConvertFrom(df, mapping, i + 1)
             ELSE IF applied.status # "ok" THEN [status |-> applied.status, df |-> df]
             ELSE ConvertFrom([df EXCEPT ![mapping[i].var_name] = applied.values],
                              mapping, i + 1)

do_inplace_conversions(df, mapping) == ConvertFrom(df, mapping, 1)

-----------------------------------------------------------------------------
(* The token grammar as the specification words it, written without the    *)
(* operators above: [repeat digits] letter width-digits [ "." digits ].    *)

IsAlpha(c) == c \in Letters

AllDigits(t, lo, hi) == \A i \in lo..hi : IsDigit(t[i])

\* t is a token whose type letter is at p and whose width has w digits;
\* a "." must be followed by at least minDec decimal digits
TokenShape(t, p, w, minDec) ==
    /\ p \in 1..Len(t)
    /\ IsAlpha(t[p])
    /\ AllDigits(t, 1, p - 1)
    /\ w >= 1
    /\ p + w <= Len(t)
    /\ AllDigits(t, p + 1, p + w)
    /\ \/ p + w = Len(t)
       \/ /\ t[p + w + 1] = "."
          /\ Len(t) - (p + w + 1) >= minDec
          /\ AllDigits(t, p + w + 2, Len(t))

WellFormedToken(t) == \E p \in 1..Len(t), w \in 1..Len(t) : TokenShape(t, p, w, 1)

\* as WellFormedToken, and a bare trailing "." is let through as well
TolerableToken(t) == \E p \in 1..Len(t), w \in 1..Len(t) : TokenShape(t, p, w, 0)

DelimPos(s) == {i \in 1..Len(s) : s[i] \in {",", "/"}}

NTokens(s) == Cardinality(DelimPos(s)) + 1

KthSmallest(S, k) == CHOOSE x \in S : Cardinality({y \in S : y <= x}) = k

\* the k-th token of the comma/slash-delimited list s
TokenAt(s, k) ==
    LET lo == IF k = 1 THEN 0 ELSE KthSmallest(DelimPos(s), k - 1)
        hi == IF k = NTokens(s) THEN Len(s) + 1 ELSE KthSmallest(DelimPos(s), k)
    IN  SubSeq(s, lo + 1, hi - 1)

\* the physical line the k-th token is on: one more than the slashes before it
LineOfToken(s, k) ==
    1 + Cardinality({d \in DelimPos(s) :
                        s[d] = "/" /\ Cardinality({e \in DelimPos(s) : e <= d}) < k})

WellFormedSpec(s) == \A k \in 1..NTokens(s) : WellFormedToken(TokenAt(s, k))

\* the descriptor the grammar assigns to a well-formed token
ExpectedField(t) ==
    LET p == CHOOSE q \in 1..Len(t) : IsAlpha(t[q])
        w == CHOOSE v \in 1..Len(t) : TokenShape(t, p, v, 1)
    IN  [n_repeats |-> IF p = 1 THEN 1 ELSE DigitsToInt(SubSeq(t, 1, p - 1)),
         type      |-> t[p],
         width     |-> DigitsToInt(SubSeq(t, p + 1, p + w))]

-----------------------------------------------------------------------------
(* The record layout as the specification words it.                        *)

\* the field descriptors the grammar assigns to a well-formed format spec
LayoutOf(s) == [k \in 1..NTokens(s) |-> ExpectedField(TokenAt(s, k))]

LineWrapCount(s) == Count(s, "/") + 1

\* the number of field occurrences of the first k descriptors
RECURSIVE RepeatsBefore(_, _)
RepeatsBefore(fields, k) ==
    IF k = 0 THEN 0 ELSE RepeatsBefore(fields, k - 1) + fields[k].n_repeats

NOccurrences(fields) == RepeatsBefore(fields, Len(fields))

\* the descriptor the j-th field occurrence belongs to
FieldOfOccurrence(fields, j) ==
    CHOOSE k \in 1..Len(fields) :
        RepeatsBefore(fields, k - 1) < j /\ j <= RepeatsBefore(fields, k)

OccWidth(fields, j) == fields[FieldOfOccurrence(fields, j)].width

\* the number of characters in front of the j-th field occurrence
RECURSIVE OccOffset(_, _)
OccOffset(fields, j) ==
    IF j = 1 THEN 0 ELSE OccOffset(fields, j - 1) + OccWidth(fields, j - 1)

TotalWidth(fields) == OccOffset(fields, NOccurrences(fields) + 1)

NGroups(data, n) == (Len(data) + n - 1) \div n

Group(data, n, g) ==
    SubSeq(data, (g - 1) * n + 1, IF g * n < Len(data) THEN g * n ELSE Len(data))

\* a group's lines concatenated, trailing whitespace stripped
Stream(group) == RStrip(Join(group))

\* the characters of the stream that the j-th field occurrence covers
Window(stream, fields, j) ==
    LET lo == OccOffset(fields, j) + 1
        hi == OccOffset(fields, j) + OccWidth(fields, j)
    IN  SubSeq(stream, lo, IF hi < Len(stream) THEN hi ELSE Len(stream))

-----------------------------------------------------------------------------
(* The header as the specification words it.                               *)

\* the line begins with "(" once its leading whitespace is stripped
BeginsWithParen(line) ==
    \E i \in 1..Len(line) : line[i] = "(" /\ \A j \in 1..(i - 1) : IsSpace(line[j])

\* where the runs of two or more whitespace characters of t start
GapStarts(t) ==
    {i \in 1..(Len(t) - 1) :
        IsSpace(t[i]) /\ IsSpace(t[i + 1]) /\ (i = 1 \/ ~IsSpace(t[i - 1]))}

\* a trimmed line has two segments or more when it has such a run
HasTwoSegments(line) == GapStarts(Strip(line)) # {}

\* from the end of the first run to the start of the second, or to the end
SecondSegment(line) ==
    LET t     == Strip(line)
        first == SetMin(GapStarts(t))
        later == GapStarts(t) \ {first}
    IN  SubSeq(t, first + SpaceRun(t, first),
               IF later = {} THEN Len(t) ELSE SetMin(later) - 1)

\* the 1-based index of the first format-specifier line
FirstFormatLine(ft) == SetMin({i \in 1..Len(ft) : BeginsWithParen(ft[i])})

-----------------------------------------------------------------------------
(* Bounded inputs: format specs and header documents.                      *)

RECURSIVE StringsUpTo(_, _)
StringsUpTo(chars, n) ==
    IF n = 0 THEN {<<>>}
    ELSE LET shorter == StringsUpTo(chars, n - 1)
         IN  shorter \cup {Append(s, c) : s \in shorter, c \in chars}

RECURSIVE SeqsUpTo(_, _)
SeqsUpTo(S, n) ==
    IF n = 0 THEN {<<>>}
    ELSE LET shorter == SeqsUpTo(S, n - 1)
         IN  shorter \cup {Append(q, x) : q \in shorter, x \in S}

NoValue == [status |-> "none"]

MaxSpecLen == 6

SpecChars == {"1", "2", "F", ".", ",", "/"}

InitFormat ==
    /\ pc = "parse_format_spec"
    /\ raw_spec \in StringsUpTo(SpecChars, MaxSpecLen)
    /\ full_text = <<>>
    /\ n_vars = 0
    /\ records = <<>>
    /\ pads = <<>>
    /\ parsed_df = <<>>
    /\ converter_mapping = <<>>
    /\ ret = NoValue

\* Header lines: variable definitions (margins of spaces and tabs, a name
\* with an inner space, sample-data segments), lines with fewer than two
\* segments, and format-specifier lines.
VariableLines ==
    {<<"1", " ", " ", "A">>,
     <<" ", "2", " ", " ", "B", " ", " ", "9">>,
     <<"\t", "1", " ", "\t", "A", " ", "B">>,
     <<"1", " ", " ", " ", "A", " ", " ", "9", " ", " ", "8", " ">>,
     <<"1", " ", " ", "(", "A">>}

ShortLines == {<<>>, <<"1", " ", "A">>, <<" ", " ">>}

FormatLines ==
    {<<"(", "I", "2", ")">>,
     <<" ", "(", "I", "2", ")", " ">>,
     <<"\t", "(", "I", "2", ")">>,
     <<"(", "2", "F", "1", "/", "I", "1", ")", " ", "\t">>,
     <<" ", "(", " ", "I", "2", " ", ")">>,
     <<"(", "(", "I", "2">>}

HeaderLines == VariableLines \cup ShortLines \cup FormatLines

MaxHeaderLines == 3

InitHeader ==
    /\ pc = "extract_variable_names"
    /\ full_text \in SeqsUpTo(HeaderLines, MaxHeaderLines)
    /\ raw_spec = <<>>
    /\ n_vars = 0
    /\ records = <<>>
    /\ pads = <<>>
    /\ parsed_df = <<>>
    /\ converter_mapping = <<>>
    /\ ret = NoValue

-----------------------------------------------------------------------------
(* Bounded inputs: documents with arbitrary data lines.                    *)

\* Documents: n variable-definition lines, the format-specifier line in the
\* margins and parentheses of the data files, then the data lines.
VarNames == <<"A", "B", "C", "D", "E", "F">>

VariableLine(i) == <<" ", DigitChars[i + 1], " ", " ", VarNames[i], " ", " ", "9">>

FormatLine(body) == <<" ", "(">> \o body \o <<")", " ">>

Document(n, body, data) ==
    [i \in 1..n |-> VariableLine(i)] \o <<FormatLine(body)>> \o data

DataFormats ==
    {<<"I", "1">>,
     <<"I", "2">>,
     <<"I", "3">>,
     <<"2", "I", "1">>,
     <<"I", "1", "/", "I", "1">>,
     <<"I", "1", ",", "F", "2", ".", "0">>}

DataChars == {"0", "1", " ", "+", "_"}

MaxDataLen == 3

MaxDataLines == 2

MaxDataVars == 1

InitData ==
    /\ pc = "parse_data"
    /\ n_vars \in 0..MaxDataVars
    /\ raw_spec \in DataFormats
    /\ \E data \in SeqsUpTo(StringsUpTo(DataChars, MaxDataLen), MaxDataLines) :
           full_text = Document(n_vars, raw_spec, data)
    /\ records = <<>>
    /\ pads = <<>>
    /\ parsed_df = <<>>
    /\ converter_mapping = <<>>
    /\ ret = NoValue

-----------------------------------------------------------------------------
(* Bounded inputs: documents written from records.                         *)

\* Documents written from records: every value as zero-padded decimal digits
\* at the width of its field, the fields in layout order, a new physical
\* line at every "/", and pads[l] spaces after physical line l.
RECURSIVE IntToDigits(_)
IntToDigits(v) ==
    IF v < 10 THEN <<DigitChars[v + 1]>>
    ELSE IntToDigits(v \div 10) \o <<DigitChars[(v % 10) + 1]>>

ZeroPad(v, w) == [i \in 1..(w - Len(IntToDigits(v))) |-> "0"] \o IntToDigits(v)

Spaces(n) == [i \in 1..n |-> " "]

RECURSIVE EncodeLine(_, _, _, _)
EncodeLine(s, rec, l, j) ==
    IF j > NOccurrences(LayoutOf(s)) THEN <<>>
    ELSE (IF LineOfToken(s, FieldOfOccurrence(LayoutOf(s), j)) = l
          THEN ZeroPad(rec[j], OccWidth(LayoutOf(s), j))
          ELSE <<>>) \o EncodeLine(s, rec, l, j + 1)

EncodeRecord(s, rec, padding) ==
    [l \in 1..LineWrapCount(s) |-> EncodeLine(s, rec, l, 1) \o Spaces(padding[l])]

RECURSIVE EncodeRecords(_, _, _)
EncodeRecords(s, recs, padding) ==
    IF recs = <<>> THEN <<>>
    ELSE EncodeRecord(s, Head(recs), padding)
             \o EncodeRecords(s, Tail(recs), padding)

\* format specs of up to n tokens, each delimiter a comma or a slash
RECURSIVE FormatsUpTo(_, _)
FormatsUpTo(tokens, n) ==
    IF n = 1 THEN tokens
    ELSE LET shorter == FormatsUpTo(tokens, n - 1)
         IN  shorter \cup {f \o <<d>> \o t :
                              f \in shorter, d \in {",", "/"}, t \in tokens}

LayoutTokens == {<<"I", "1">>, <<"2", "I", "1">>, <<"F", "2", ".", "0">>}

MaxTokens == 2

ValueDigits == {"0", "7"}

\* the values of at most w digits, written with the ValueDigits
ValuesOfWidth(w) == {DigitsToInt(t) : t \in StringsUpTo(ValueDigits, w) \ {<<>>}}

\* the records of a layout: one value per field occurrence, of no more
\* digits than the width of its field
RecordsFor(fields) ==
    {rec \in [1..NOccurrences(fields) ->
                 UNION {ValuesOfWidth(fields[k].width) : k \in 1..Len(fields)}] :
        \A j \in 1..NOccurrences(fields) :
            rec[j] \in ValuesOfWidth(OccWidth(fields, j))}

MaxPad == 1

InitRoundTrip ==
    /\ pc = "parse_data"
    /\ raw_spec \in FormatsUpTo(LayoutTokens, MaxTokens)
    /\ n_vars = NOccurrences(LayoutOf(raw_spec)) - 1
    /\ \E rec \in RecordsFor(LayoutOf(raw_spec)) : records = <<rec>>
    /\ pads \in [1..LineWrapCount(raw_spec) -> 0..MaxPad]
    /\ full_text = Document(n_vars, raw_spec, EncodeRecords(raw_spec, records, pads))
    /\ parsed_df = <<>>
    /\ converter_mapping = <<>>
    /\ ret = NoValue

\* the record whose j-th value is j
CountingRecord(fields) == [j \in 1..NOccurrences(fields) |-> j]

MaxVars == 2

MaxRecords == 2

InitTable ==
    /\ pc = "parse_data"
    /\ raw_spec \in FormatsUpTo(LayoutTokens, MaxTokens)
    /\ n_vars \in 0..MaxVars
    /\ \E n \in 0..MaxRecords :
           records = [i \in 1..n |-> CountingRecord(LayoutOf(raw_spec))]
    /\ pads = [l \in 1..LineWrapCount(raw_spec) |-> 0]
    /\ full_text = Document(n_vars, raw_spec, EncodeRecords(raw_spec, records, pads))
    /\ parsed_df = <<>>
    /\ converter_mapping = <<>>
    /\ ret = NoValue

-----------------------------------------------------------------------------
(* Bounded inputs: tables and converter mappings.                          *)

\* Tables and converter mappings: a converter is any function from a cell
\* value to a new value or to the error it raises.
ColumnNames == {"AGE", "RACE"}

MappedNames == {"AGE", "RACE", "MOS"}

CellValues == {0, 1}

MaxRows == 2

MaxEntries == 2

Outcomes ==
    {[status |-> "ok", value |-> 5],
     [status |-> "KeyError", value |-> 0],
     [status |-> "ValueError", value |-> 0]}

Converters == [CellValues -> Outcomes]

Tables ==
    UNION {[cols -> [1..n -> CellValues]] : cols \in SUBSET ColumnNames, n \in 0..MaxRows}

\* a dict: no key twice
Mappings ==
    {m \in SeqsUpTo([var_name : MappedNames, converter : Converters], MaxEntries) :
        \A i, j \in 1..Len(m) : m[i].var_name = m[j].var_name => i = j}

InitConvert ==
    /\ pc = "do_inplace_conversions"
    /\ parsed_df \in Tables
    /\ converter_mapping \in Mappings
    /\ raw_spec = <<>>
    /\ full_text = <<>>
    /\ n_vars = 0
    /\ records = <<>>
    /\ pads = <<>>
    /\ ret = NoValue

-----------------------------------------------------------------------------
(* Actions: each applies one function of the module to its argument.       *)

ParseFormatSpec ==
    /\ pc = "parse_format_spec"
    /\ ret' = parse_format_spec(raw_spec)
    /\ pc' = "parse_format_spec_done"
    /\ UNCHANGED <<raw_spec, full_text, n_vars, records, pads, parsed_df, converter_mapping>>

ExtractVariableNames ==
    /\ pc = "extract_variable_names"
    /\ ret' = extract_variable_names(full_text)
    /\ pc' = "extract_variable_names_done"
    /\ UNCHANGED <<raw_spec, full_text, n_vars, records, pads, parsed_df, converter_mapping>>

ParseData ==
    /\ pc = "parse_data"
    /\ ret' = parse_data(full_text)
    /\ pc' = "parse_data_done"
    /\ UNCHANGED <<raw_spec, full_text, n_vars, records, pads, parsed_df, converter_mapping>>

DoInplaceConversions ==
    /\ pc = "do_inplace_conversions"
    /\ ret' = do_inplace_conversions(parsed_df, converter_mapping)
    /\ pc' = "do_inplace_conversions_done"
    /\ UNCHANGED <<raw_spec, full_text, n_vars, records, pads, parsed_df, converter_mapping>>

Init == InitFormat \/ InitHeader \/ InitData \/ InitRoundTrip \/ InitTable \/ InitConvert

Next == ParseFormatSpec \/ ExtractVariableNames \/ ParseData \/ DoInplaceConversions

Spec == Init /\ [][Next]_vars

SpecFormat == InitFormat /\ [][ParseFormatSpec]_vars

SpecHeader == InitHeader /\ [][ExtractVariableNames]_vars

SpecData == InitData /\ [][ParseData]_vars

SpecRoundTrip == InitRoundTrip /\ [][ParseData]_vars

SpecTable == InitTable /\ [][ParseData]_vars

SpecConvert == InitConvert /\ [][DoInplaceConversions]_vars

-----------------------------------------------------------------------------
(* Properties.                                                             *)

\* C1: for a well-formed comma/slash-delimited format spec, parse_format_spec
\* returns one field descriptor per token, in token order, with the repeat
\* prefix (1 when absent), the type letter and the width of the token, and a
\* line-wrap count of the number of "/" plus 1.
C1_WellFormedSpecParsed ==
    (pc = "parse_format_spec_done" /\ WellFormedSpec(raw_spec)) =>
        /\ ret.status = "ok"
        /\ Len(ret.field_specs) = NTokens(raw_spec)
        /\ \A k \in 1..NTokens(raw_spec) :
               ret.field_specs[k] = ExpectedField(TokenAt(raw_spec, k))
        /\ ret.chunk_size = Count(raw_spec, "/") + 1

\* a well-formed spec of two tokens split by "/", one with a repeat prefix
\* and one without, has been parsed
C1_Witness ==
    /\ pc = "parse_format_spec_done"
    /\ WellFormedSpec(raw_spec)
    /\ Count(raw_spec, "/") = 1
    /\ \E j, k \in 1..NTokens(raw_spec) :
           /\ IsAlpha(TokenAt(raw_spec, j)[1])
           /\ TokenAt(raw_spec, k)[1] = "2"
           /\ ret.status = "ok"
           /\ ret.field_specs[j].n_repeats = 1
           /\ ret.field_specs[k].n_repeats = 2

\* C2: for a document whose first line beginning with "(" is at index k and
\* whose lines before it have two segments or more, extract_variable_names
\* returns "SUBJECT ID" and the second segments of lines 0..k-1 in order,
\* line k trimmed of surrounding whitespace and parentheses, and k + 1.
C2_HeaderExtracted ==
    (/\ pc = "extract_variable_names_done"
     /\ \E i \in 1..Len(full_text) : BeginsWithParen(full_text[i])
     /\ \A i \in 1..(FirstFormatLine(full_text) - 1) : HasTwoSegments(full_text[i])) =>
        LET k == FirstFormatLine(full_text) - 1
        IN  /\ ret.status = "ok"
            /\ ret.var_names
                   = <<SUBJECT_ID>> \o [i \in 1..k |-> SecondSegment(full_text[i])]
            /\ ret.format_spec
                   = StripChars(full_text[k + 1], {" ", "\t", "(", ")"})
            /\ ret.data_start_idx = k + 1

OnlyLastLinePadded == \A l \in 1..(LineWrapCount(raw_spec) - 1) : pads[l] = 0

\* C3 as first stated: a record written at its layout, with any physical
\* line right-padded, is decoded to the original integers.
C3_RoundTripAnyPadding ==
    pc = "parse_data_done" => (ret.status = "ok" /\ ret.rows = records)

\* C3: a record written at its layout as zero-padded decimal digits, split
\* into physical lines at the "/" of the layout, with only the last physical
\* line right-padded with spaces, is decoded to the original integers in
\* the original order.
C3_RoundTrip ==
    (pc = "parse_data_done" /\ OnlyLastLinePadded) =>
        (ret.status = "ok" /\ ret.rows = records)

\* a record of several fields on two physical lines, a value with a leading
\* zero among them and spaces after the last line, has been decoded
C3_Witness ==
    /\ pc = "parse_data_done"
    /\ OnlyLastLinePadded
    /\ LineWrapCount(raw_spec) = 2
    /\ pads[2] > 0
    /\ Len(records[1]) >= 3
    /\ \E j \in 1..Len(records[1]) :
           records[1][j] = 7 /\ OccWidth(LayoutOf(raw_spec), j) = 2
    /\ ret.status = "ok"
    /\ ret.rows = records

\* the data lines of a built document, and their groups of n lines
DataOf == SubSeq(full_text, n_vars + 2, Len(full_text))

Returned == pc = "parse_data_done" /\ ret.status = "ok"

\* C4: every record of a table parse_data returns has one value per
\* variable name, the subject identifier included, and one per field
\* occurrence; a document with at least one data record whose number of
\* field occurrences differs from the number of names fails.
C4_RowsMatchNames ==
    /\ Returned =>
           /\ Len(ret.columns) = n_vars + 1
           /\ \A k \in 1..Len(ret.rows) :
                  /\ Len(ret.rows[k]) = Len(ret.columns)
                  /\ Len(ret.rows[k]) = NOccurrences(LayoutOf(raw_spec))
    /\ (/\ pc = "parse_data_done"
        /\ Len(records) >= 1
        /\ NOccurrences(LayoutOf(raw_spec)) # n_vars + 1) => ret.status # "ok"

\* a table of two records of three values each has been returned
C4_Witness ==
    /\ Returned
    /\ Len(ret.rows) = 2
    /\ Len(ret.columns) = 3
    /\ ret.rows = records

\* C5: a format spec with a token outside the grammar makes parse_format_spec
\* fail with an error naming a malformed token; no layout is returned.
C5_MalformedTokenRejected ==
    (/\ pc = "parse_format_spec_done"
     /\ \E k \in 1..NTokens(raw_spec) : ~TolerableToken(TokenAt(raw_spec, k))) =>
        /\ ret.status = "ValueError"
        /\ ~TolerableToken(ret.field)

\* C6: parse_data returns a table only if the descriptors consume every
\* group's stripped stream exactly: nothing is left over after the last
\* descriptor and no group runs out of characters.
C6_StreamFullyConsumed ==
    Returned =>
        \A g \in 1..NGroups(DataOf, LineWrapCount(raw_spec)) :
            Len(Stream(Group(DataOf, LineWrapCount(raw_spec), g)))
                = TotalWidth(LayoutOf(raw_spec))

\* C7: a document whose number of data lines is not a multiple of the
\* line-wrap count makes parse_data fail; a short final group is never
\* decoded into a record.
C7_PartialGroupRejected ==
    (/\ pc = "parse_data_done"
     /\ Len(DataOf) % LineWrapCount(raw_spec) # 0) => ret.status # "ok"

\* C8: parse_data returns a table only if every field window of every group
\* consists of decimal digits alone; a window holding a space, a sign or an
\* underscore makes it fail.
C8_WindowsAreDigits ==
    Returned =>
        \A g \in 1..NGroups(DataOf, LineWrapCount(raw_spec)) :
            \A j \in 1..NOccurrences(LayoutOf(raw_spec)) :
                LET w == Window(Stream(Group(DataOf, LineWrapCount(raw_spec), g)),
                                LayoutOf(raw_spec), j)
                IN  \A i \in 1..Len(w) : IsDigit(w[i])

\* C9: for a document with no line beginning with "(", the empty document
\* included, extract_variable_names fails; no line is returned as the
\* format specifier.
C9_UnterminatedHeaderRejected ==
    (/\ pc = "extract_variable_names_done"
     /\ \A i \in 1..Len(full_text) : ~BeginsWithParen(full_text[i])) =>
        ret.status # "ok"

\* a mapping entry whose key is a column and whose decoder raises on a value
\* of that column
Raises(entry) ==
    /\ entry.var_name \in DOMAIN parsed_df
    /\ \E i \in 1..Len(parsed_df[entry.var_name]) :
           entry.converter[parsed_df[entry.var_name][i]].status # "ok"

\* the column after the conversions: decoded when an entry names it
Converted(name) ==
    IF \E i \in 1..Len(converter_mapping) : converter_mapping[i].var_name = name
    THEN LET e == CHOOSE i \in 1..Len(converter_mapping) :
                      converter_mapping[i].var_name = name
         IN  [i \in 1..Len(parsed_df[name]) |->
                 converter_mapping[e].converter[parsed_df[name][i]].value]
    ELSE parsed_df[name]

\* C10: do_inplace_conversions skips exactly the entries whose key is no
\* column; the decoder of every other entry is applied to each value of its
\* column, and an error it raises, a KeyError included, reaches the caller.
C10_DecoderErrorsPropagate ==
    pc = "do_inplace_conversions_done" =>
        IF \E i \in 1..Len(converter_mapping) : Raises(converter_mapping[i])
        THEN ret.status # "ok"
        ELSE /\ ret.status = "ok"
             /\ DOMAIN ret.df = DOMAIN parsed_df
             /\ \A name \in DOMAIN parsed_df : ret.df[name] = Converted(name)

=============================================================================
